---------------------------- MODULE Spec2Model ----------------------------
(***************************************************************************)
(* A model of handle_music: a command-line utility that rewrites the id3   *)
(* tags of mp3 files from their file names, fetches cover artwork, and     *)
(* copies or moves the files into artist folders.                          *)
(*                                                                         *)
(* Strings are sequences of one-character strings; a path string is such a *)
(* sequence with "/" separators, handled as posixpath handles it.  The     *)
(* file system is a function from resolved paths (sequences of names) to   *)
(* entries.                                                                *)
(***************************************************************************)
EXTENDS Integers, Sequences, FiniteSets, TLC

VARIABLES
    fs,        \* the file system: resolved path -> entry
    call,      \* find_files: the arguments of the call under study
    ret,       \* find_files: the list returned for call
    retSlash,  \* find_files: the list returned for call with source + "/"
    pg,        \* the ProgressBar object: its iteration and total
    out,       \* the progress line last printed to the terminal
    err,       \* the exception that ended the run, "" while there is none
    cfg,       \* the settings file resources/handle_music.json
    settings,  \* the settings dictionary of the running process
    catalog,   \* the artist search results of the remote catalog
    pc,        \* where the process is: "idle" before it starts, the prompt or
               \* loop it is at, "exit0", "exit1" or "crash" once it has ended
    cmd,       \* the command line: [name, arg]
    stage,     \* the action function running: "id3", "art", "copy", "move"
    files,     \* its files argument or list of files found
    result,    \* id3_correct's result list
    idx,       \* the position in files of the next file of the loop
    source,    \* sd.source
    destination, \* the destination directory chosen
    runs,      \* the number of processes started so far
    log,       \* the debug log file ~/Library/Logs/handle_music.log
    enabled,   \* the debug logger of the running process: enabled or not
    hist       \* the record of the run: calls, returns, lines printed, the
               \* file system and settings file the process started from

findVars == <<call, ret, retSlash>>
pgVars == <<pg, out>>
logVars == <<log, enabled>>
procVars == <<cfg, settings, catalog, pc, cmd, stage, files, result, idx, source,
              destination, runs, hist, log, enabled>>
vars == <<fs, call, ret, retSlash, pg, out, err, cfg, settings, catalog, pc, cmd,
          stage, files, result, idx, source, destination, runs, hist, log, enabled>>

\* Python's None, in the shapes the values beside it have: a depth, a string,
\* a list of strings.
NoDepth == 0
NoStr == <<"None">>
NoList == <<NoStr>>
NoCall == [src |-> NoStr, pat |-> NoStr, depth |-> NoDepth]

(***************************************************************************)
(* Strings                                                                 *)
(***************************************************************************)
Last(s) == s[Len(s)]

RECURSIVE Flatten(_)
Flatten(ss) == IF ss = <<>> THEN <<>> ELSE Head(ss) \o Flatten(Tail(ss))

RECURSIVE Rep(_, _)
Rep(s, n) == IF n = 0 THEN <<>> ELSE s \o Rep(s, n - 1)

EndsWith(s, suf) ==
    /\ Len(s) >= Len(suf)
    /\ SubSeq(s, Len(s) - Len(suf) + 1, Len(s)) = suf

\* A list holding the elements of a finite set, in the one order the
\* directory listing gives them.
RECURSIVE SetToSeq(_)
SetToSeq(S) ==
    IF S = {} THEN <<>>
    ELSE LET x == CHOOSE y \in S : TRUE IN <<x>> \o SetToSeq(S \ {x})

Range(s) == {s[i] : i \in 1..Len(s)}

Mp3Pattern == <<"*", ".", "m", "p", "3">>
Mp3Ext == <<".", "m", "p", "3">>
Ch(s) == <<s>>
Mp3(s) == <<s>> \o Mp3Ext

(***************************************************************************)
(* posixpath                                                               *)
(***************************************************************************)
\* os.path.join(a, b)
join2(a, b) ==
    IF b # <<>> /\ b[1] = "/" THEN b
    ELSE IF a = <<>> \/ Last(a) = "/" THEN a \o b
    ELSE a \o <<"/">> \o b

join3(a, b, c) == join2(join2(a, b), c)

RECURSIVE RStripSep(_)
RStripSep(s) ==
    IF s # <<>> /\ Last(s) = "/" THEN RStripSep(SubSeq(s, 1, Len(s) - 1)) ELSE s

LastSep(s) ==
    IF \E i \in 1..Len(s) : s[i] = "/"
    THEN CHOOSE i \in 1..Len(s) :
            s[i] = "/" /\ \A j \in (i + 1)..Len(s) : s[j] # "/"
    ELSE 0

\* os.path.split(p): <<head, tail>>
split(p) ==
    LET i == LastSep(p)
        head == SubSeq(p, 1, i)
        tail == SubSeq(p, i + 1, Len(p))
    IN  <<IF head # <<>> /\ RStripSep(head) # <<>> THEN RStripSep(head) ELSE head,
          tail>>

basename(p) == split(p)[2]

\* The names a path string resolves through: empty components (repeated or
\* trailing separators) count for nothing.
RECURSIVE Components(_)
Components(p) ==
    IF p = <<>> THEN <<>>
    ELSE IF p[1] = "/" THEN Components(Tail(p))
    ELSE LET n == IF \E i \in 1..Len(p) : p[i] = "/"
                  THEN (CHOOSE i \in 1..Len(p) :
                           p[i] = "/" /\ \A j \in 1..(i - 1) : p[j] # "/") - 1
                  ELSE Len(p)
         IN  <<SubSeq(p, 1, n)>> \o Components(SubSeq(p, n + 1, Len(p)))

(***************************************************************************)
(* The file system                                                         *)
(***************************************************************************)
DirEntry == [kind |-> "dir", id |-> 0, artist |-> NoStr, title |-> NoStr, art |-> 0]

FileEntry(i, a) ==
    [kind |-> "file", id |-> i, artist |-> a, title |-> NoStr, art |-> 0]

IsDirC(f, c) == c \in DOMAIN f /\ f[c].kind = "dir"
IsFileC(f, c) == c \in DOMAIN f /\ f[c].kind = "file"

\* os.path.isdir(p)
IsDir(f, p) == IsDirC(f, Components(p))

\* A slip: every path taken to exist.
ExistsAny(f, p) == TRUE

\* os.path.exists(p): a path with a trailing separator names a directory.
Exists(f, p) ==
    /\ p # <<>>
    /\ Components(p) \in DOMAIN f
    /\ (p # <<>> /\ Last(p) = "/") => IsDir(f, p)

\* os.listdir(p), the empty set where p is no directory.
ListDir(f, p) ==
    LET c == Components(p)
    IN  IF IsDirC(f, c)
        THEN {k[Len(k)] : k \in {k \in DOMAIN f :
                  Len(k) = Len(c) + 1 /\ SubSeq(k, 1, Len(c)) = c}}
        ELSE {}

Put(f, c, e) == [k \in DOMAIN f \cup {c} |-> IF k = c THEN e ELSE f[k]]
Remove(f, c) == [k \in DOMAIN f \ {c} |-> f[k]]

(***************************************************************************)
(* glob                                                                    *)
(***************************************************************************)
HasMagic(s) == \E i \in 1..Len(s) : s[i] = "*"

\* fnmatch.fnmatch(name, pat), for patterns of literals and "*"
RECURSIVE fnmatch(_, _)
fnmatch(name, pat) ==
    IF pat = <<>> THEN name = <<>>
    ELSE IF pat[1] = "*"
         THEN \E k \in 0..Len(name) :
                 fnmatch(SubSeq(name, k + 1, Len(name)), Tail(pat))
         ELSE name # <<>> /\ name[1] = pat[1] /\ fnmatch(Tail(name), Tail(pat))

IsHidden(s) == s # <<>> /\ s[1] = "."

\* glob._glob1 and glob._glob0: the names in directory d that match base
GlobInDir(f, d, base) ==
    IF HasMagic(base)
    THEN SetToSeq({n \in ListDir(f, d) :
                      /\ IsHidden(base) \/ ~IsHidden(n)
                      /\ fnmatch(n, base)})
    ELSE IF base = <<>>
         THEN (IF IsDir(f, d) THEN <<base>> ELSE <<>>)
         ELSE (IF Exists(f, join2(d, base)) THEN <<base>> ELSE <<>>)

\* glob.glob(pathname, recursive=False), for absolute path names
RECURSIVE glob(_, _)
glob(f, pathname) ==
    IF ~HasMagic(pathname)
    THEN (IF Exists(f, pathname) THEN <<pathname>> ELSE <<>>)
    ELSE LET dirname == split(pathname)[1]
             base == split(pathname)[2]
             dirs == IF dirname # pathname /\ HasMagic(dirname)
                     THEN glob(f, dirname) ELSE <<dirname>>
         IN  Flatten([i \in 1..Len(dirs) |->
                 LET names == GlobInDir(f, dirs[i], base)
                 IN  [j \in 1..Len(names) |-> join2(dirs[i], names[j])]])

(***************************************************************************)
(* per_tools.find_files                                                    *)
(***************************************************************************)
MaxDepth == 3

\* os.walk(top): the directory paths it yields, top-down
RECURSIVE walk(_, _)
walk(f, top) ==
    IF ~IsDir(f, top) THEN <<>>
    ELSE LET subs == SetToSeq({n \in ListDir(f, top) : IsDir(f, join2(top, n))})
         IN  <<top>> \o Flatten([i \in 1..Len(subs) |-> walk(f, join2(top, subs[i]))])

\* A slip: the pattern appended to the source with no separator.
LevelPatternNoSep(src, level, pattern) ==
    src \o Rep(<<"/", "*">>, level) \o pattern

\* os.path.join(source, '/*' * depth_level, pattern)
LevelPattern(src, level, pattern) ==
    join3(src, Rep(<<"/", "*">>, level), pattern)

find_files(f, src, pattern, depth) ==
    IF depth = NoDepth
    THEN LET dirs == walk(f, src)
         IN  Flatten([i \in 1..Len(dirs) |-> glob(f, join2(dirs[i], pattern))])
    ELSE Flatten([l \in 1..depth |-> glob(f, LevelPattern(src, l - 1, pattern))])

\* The files a list of path strings names.
FileSet(list) == {Components(list[i]) : i \in 1..Len(list)}

(***************************************************************************)
(* per_tools.ProgressBar                                                   *)
(***************************************************************************)
Decimals == 1
BarLength == 50

RECURSIVE Pow10(_)
Pow10(n) == IF n = 0 THEN 1 ELSE 10 * Pow10(n - 1)

Digit(d) == <<"0", "1", "2", "3", "4", "5", "6", "7", "8", "9">>[d + 1]

\* str(n) for a natural number n
RECURSIVE IntStr(_)
IntStr(n) == IF n < 10 THEN <<Digit(n)>> ELSE IntStr(n \div 10) \o <<Digit(n % 10)>>

\* n as exactly k decimal digits
RECURSIVE FracStr(_, _)
FracStr(n, k) == IF k = 0 THEN <<>> ELSE FracStr(n \div 10, k - 1) \o <<Digit(n % 10)>>

\* num / den rounded to the nearest integer, a tie to the even one
RoundHalfEven(num, den) ==
    LET q == num \div den
        r == num % den
    IN  IF 2 * r < den THEN q
        ELSE IF 2 * r > den THEN q + 1
        ELSE IF q % 2 = 0 THEN q ELSE q + 1

\* ("{0:." + str(decimals) + "f}").format(100 * (iteration / float(total)))
PercentText(iteration, total) ==
    LET scaled == RoundHalfEven(100 * Pow10(Decimals) * iteration, total)
    IN  IntStr(scaled \div Pow10(Decimals)) \o <<".">>
            \o FracStr(scaled % Pow10(Decimals), Decimals)

\* ProgressBar.__init__(total)
ProgressBar(total) == [iteration |-> 0, total |-> total]

NoOut == [text |-> NoStr, filled |-> 0, newline |-> FALSE, iter |-> 0]

\* A slip: the line printed for the iteration to come.
LineAhead(p) ==
    [text |-> PercentText(p.iteration + 1, p.total),
     filled |-> (BarLength * (p.iteration + 1)) \div p.total,
     newline |-> p.iteration + 1 >= p.total,
     iter |-> p.iteration]

\* ProgressBar.print, for a total that is not 0: the percentage, the number of
\* filled cells of the bar, whether the line is ended, and (for the record)
\* the iteration the line was printed at.
Line(p) ==
    [text |-> PercentText(p.iteration, p.total),
     filled |-> (BarLength * p.iteration) \div p.total,
     newline |-> p.iteration >= p.total,
     iter |-> p.iteration]

\* ProgressBar.print raises ZeroDivisionError for a total of 0.
PrintRaises(p) == p.total = 0

\* ProgressBar.increment
increment(p) == [p EXCEPT !.iteration = @ + 1]

(***************************************************************************)
(* File system calls.  Each gives [err, fs]: the exception raised ("" for  *)
(* none) and the file system it leaves.                                    *)
(***************************************************************************)
Parent(c) == SubSeq(c, 1, Len(c) - 1)

ParentOk(f, c) == c # <<>> /\ IsDirC(f, Parent(c))

\* The exception for a path whose parent is no directory.
ParentError(f, c) ==
    IF \E n \in 1..(Len(c) - 1) : IsFileC(f, SubSeq(c, 1, n))
    THEN "NotADirectoryError" ELSE "FileNotFoundError"

Ok(f) == [err |-> "", fs |-> f]
Fail(e, f) == [err |-> e, fs |-> f]

\* os.mkdir(p)
mkdir(f, p) ==
    LET c == Components(p)
    IN  IF c \in DOMAIN f THEN Fail("FileExistsError", f)
        ELSE IF ~ParentOk(f, c) THEN Fail(ParentError(f, c), f)
        ELSE Ok(Put(f, c, DirEntry))

\* os.rename(src, dst) of a file: an existing file at dst is replaced.
rename(f, src, dst) ==
    LET sc == Components(src)
        dc == Components(dst)
    IN  IF ~IsFileC(f, sc) THEN Fail("FileNotFoundError", f)
        ELSE IF ~ParentOk(f, dc) THEN Fail(ParentError(f, dc), f)
        ELSE IF sc = dc THEN Ok(f)
        ELSE IF IsDirC(f, dc) THEN Fail("IsADirectoryError", f)
        ELSE Ok(Put(Remove(f, sc), dc, f[sc]))

\* shutil.copy2(src, dst) of a file: content, tags and all; an existing file
\* at dst is overwritten.
copy2(f, src, dst) ==
    LET to == IF IsDir(f, dst) THEN join2(dst, basename(src)) ELSE dst
        sc == Components(src)
        dc == Components(to)
    IN  IF ~IsFileC(f, sc) THEN Fail("FileNotFoundError", f)
        ELSE IF sc = dc THEN Fail("SameFileError", f)
        ELSE IF ~ParentOk(f, dc) THEN Fail(ParentError(f, dc), f)
        ELSE IF IsDirC(f, dc) THEN Fail("IsADirectoryError", f)
        ELSE Ok(Put(f, dc, f[sc]))

\* shutil.move(src, dst) of a file
move(f, src, dst) ==
    LET real == IF IsDir(f, dst) THEN join2(dst, basename(src)) ELSE dst
    IN  IF IsDir(f, dst) /\ Exists(f, real) THEN Fail("shutil.Error", f)
        ELSE LET r == rename(f, src, real)
             IN  IF r.err = "" THEN r
                 ELSE LET c == copy2(f, src, real)
                      IN  IF c.err = "" THEN Ok(Remove(c.fs, Components(src)))
                          ELSE c

(***************************************************************************)
(* File names.  A match of the feature_tags pattern in a name is the one   *)
(* character "F", a match of feature2_tags is "G", a match of invalid_tags *)
(* is "!": the patterns themselves are settings.                           *)
(***************************************************************************)
FeatMatch == "F"
Feat2Match == "G"
InvalidMatch == "!"
FtText == <<" ", "f", "t", ".", " ">>
Ft2Text == <<"(", "f", "t", ".", " ">>
Sep == <<" ", "-", " ">>

\* re.sub(pattern, repl, s), the pattern matching the character tok
RECURSIVE re_sub(_, _, _)
re_sub(tok, repl, s) ==
    IF s = <<>> THEN <<>>
    ELSE (IF s[1] = tok THEN repl ELSE <<s[1]>>) \o re_sub(tok, repl, Tail(s))

\* re.search(sd.invalid, s)
re_search_invalid(s) == \E i \in 1..Len(s) : s[i] = InvalidMatch

\* re.split(' - ', s)
RECURSIVE re_split(_)
re_split(s) ==
    IF \E i \in 1..(Len(s) - 2) : SubSeq(s, i, i + 2) = Sep
    THEN LET i == CHOOSE i \in 1..(Len(s) - 2) :
                     /\ SubSeq(s, i, i + 2) = Sep
                     /\ \A j \in 1..(i - 1) : SubSeq(s, j, j + 2) # Sep
         IN  <<SubSeq(s, 1, i - 1)>> \o re_split(SubSeq(s, i + 3, Len(s)))
    ELSE <<s>>

\* str.strip()
RECURSIVE lstrip(_)
lstrip(s) == IF s # <<>> /\ s[1] = " " THEN lstrip(Tail(s)) ELSE s

RECURSIVE rstrip(_)
rstrip(s) ==
    IF s # <<>> /\ Last(s) = " " THEN rstrip(SubSeq(s, 1, Len(s) - 1)) ELSE s

strip(s) == rstrip(lstrip(s))

\* s[:-4]
DropLast4(s) == SubSeq(s, 1, Len(s) - 4)

\* basename after re.sub(sd.feat, ' ft. ', .) and re.sub(sd.feat2, '(ft. ', .)
Normalised(base) == re_sub(Feat2Match, Ft2Text, re_sub(FeatMatch, FtText, base))

\* A slip: the tags split from the name as it was before the substitutions.
SplitRaw(base, normal) == re_split(base)

\* tags = re.split(' - ', basename), basename being the normalised name
SplitTags(base, normal) == re_split(normal)

\* re.search(sd.invalid, basename) or len(tags) != 2
IsInvalidName(normal, tags) == re_search_invalid(normal) \/ Len(tags) # 2

ArtistOf(tags) == strip(tags[1])
TitleOf(tags) == strip(DropLast4(tags[2]))

InvalidDir == <<"_", "i", "n", "v", "a", "l", "i", "d">>

(***************************************************************************)
(* Settings                                                                *)
(***************************************************************************)
Home == <<"/", "h">>
Cwd == <<"/", "w">>

Settings(l, s, d, t, k) ==
    [logging |-> l, source |-> s, destination |-> d, access_token |-> t,
     access_secret |-> k, user_agent |-> <<"u">>]

\* The JSON text of a value: null, true, false, or the string in quotes.
JsonNull == <<"n", "u", "l", "l">>
JsonTrue == <<"t", "r", "u", "e">>
JsonFalse == <<"f", "a", "l", "s", "e">>
JsonStr(v) == IF v = NoStr THEN JsonNull ELSE <<"\"">> \o v \o <<"\"">>
JsonBool(b) == IF b THEN JsonTrue ELSE JsonFalse
StrOfJson(j) == IF j = JsonNull THEN NoStr ELSE SubSeq(j, 2, Len(j) - 1)

SettingsKeys == DOMAIN Settings(TRUE, NoStr, NoStr, NoStr, NoStr)

\* json.dump(settings, fh, indent=4): the document written
dump(s) ==
    [k \in SettingsKeys |->
        IF k = "logging" THEN JsonBool(s[k]) ELSE JsonStr(s[k])]

\* with open(sd.CONFIG_PATH, 'r') as fh: settings = json.load(fh)
load(doc) ==
    [k \in SettingsKeys |->
        IF k = "logging" THEN doc[k] = JsonTrue ELSE StrOfJson(doc[k])]

\* A slip: the settings changed in memory and never written.
NoDump(s) == cfg

\* with open(sd.CONFIG_PATH, 'w') as fh: json.dump(settings, fh, indent=4):
\* what the file holds afterwards
WriteConfig(s) == dump(s)

\* A slip: the tilde left alone.
NoExpand(p) == p

\* os.path.expanduser(p): "~" and "~/..." are the home directory; "~name" of
\* an unknown user is left alone.
expanduser(p) ==
    IF p = <<>> \/ p[1] # "~" THEN p
    ELSE IF Len(p) > 1 /\ p[2] # "/" THEN p
    ELSE LET r == RStripSep(Home) \o Tail(p)
         IN  IF r = <<>> THEN <<"/">> ELSE r

\* os.path.normpath for an absolute path: "." and empty components dropped,
\* ".." resolved, exactly two leading separators kept.
RECURSIVE NormComps(_, _)
NormComps(cs, acc) ==
    IF cs = <<>> THEN acc
    ELSE IF Head(cs) = <<".">> THEN NormComps(Tail(cs), acc)
    ELSE IF Head(cs) = <<".", ".">>
         THEN NormComps(Tail(cs), IF acc = <<>> THEN acc ELSE Parent(acc))
    ELSE NormComps(Tail(cs), Append(acc, Head(cs)))

RECURSIVE JoinComps(_)
JoinComps(cs) ==
    IF cs = <<>> THEN <<>> ELSE <<"/">> \o Head(cs) \o JoinComps(Tail(cs))

normpath(p) ==
    LET cs == NormComps(Components(p), <<>>)
        lead == IF Len(p) >= 2 /\ p[2] = "/" /\ (Len(p) = 2 \/ p[3] # "/")
                THEN <<"/">> ELSE <<>>
    IN  IF cs = <<>> THEN lead \o <<"/">> ELSE lead \o JoinComps(cs)

\* os.path.abspath(p)
abspath(p) == normpath(IF p # <<>> /\ p[1] = "/" THEN p ELSE join2(Cwd, p))

(***************************************************************************)
(* The debug log: a file that is there or not, and the lines in it.        *)
(***************************************************************************)
NoLogFile == [exists |-> FALSE, lines |-> 0]

\* A slip: the lines written whether the logger is enabled or not.
writeAlways(l, on, n) ==
    IF n > 0 THEN [exists |-> TRUE, lines |-> l.lines + n] ELSE l

\* Logger.write called n times by a logger that is enabled or not: each call
\* of an enabled logger opens the file for appending and writes one line.
write(l, on, n) ==
    IF on /\ n > 0 THEN [exists |-> TRUE, lines |-> l.lines + n] ELSE l

\* A slip: the logger created disabled where the settings say so.
StartupLinesQuiet(logging) == IF logging THEN 2 ELSE 0

\* The lines every process writes while it starts, the logger still enabled:
\* the separator, "Successfully loaded settings." and, where the logging
\* setting is off, "Debug logger is getting disabled."
StartupLines(logging) == IF logging THEN 2 ELSE 3

\* Logger.clear: os.remove of the log file
clear(l) ==
    IF l.exists THEN [err |-> "", log |-> NoLogFile]
    ELSE [err |-> "FileNotFoundError", log |-> l]

(***************************************************************************)
(* The process: handle_music.py from startup to exit.                      *)
(***************************************************************************)
MaxRuns == 2
MaxResults == 3

Token == <<"k">>

Ended == pc \in {"exit0", "exit1", "crash"}

Event(e, fn, list) == [ev |-> e, fn |-> fn, list |-> list]

NoPrev ==
    [name |-> "", files |-> NoList, destination |-> NoStr, pc |-> "idle",
     err |-> "", fs |-> <<>> :> DirEntry]

\* What is kept of the process that ran before.
Prev ==
    IF pc = "idle" THEN NoPrev
    ELSE [name |-> cmd.name, files |-> files, destination |-> destination,
          pc |-> pc, err |-> err, fs |-> fs]

\* No process is running, runsBefore having run and ended.
Idle(runsBefore) ==
    /\ settings = load(cfg)
    /\ pc = "idle"
    /\ cmd = [name |-> "", arg |-> NoStr]
    /\ stage = ""
    /\ files = NoList
    /\ result = <<>>
    /\ idx = 1
    /\ source = NoStr
    /\ destination = NoStr
    /\ runs = runsBefore
    /\ hist = [fs0 |-> fs, cfg0 |-> cfg, log0 |-> log, events |-> <<>>,
               prev |-> NoPrev]
    /\ call = NoCall
    /\ ret = NoList
    /\ retSlash = NoList
    /\ pg = ProgressBar(0)
    /\ out = NoOut
    /\ err = ""
    /\ enabled = TRUE

NoProcess ==
    /\ cfg = dump(Settings(TRUE, NoStr, NoStr, NoStr, NoStr))
    /\ settings = load(cfg)
    /\ log = NoLogFile
    /\ enabled = TRUE
    /\ catalog = <<>>
    /\ pc = "idle"
    /\ cmd = [name |-> "", arg |-> NoStr]
    /\ stage = ""
    /\ files = NoList
    /\ result = <<>>
    /\ idx = 1
    /\ source = NoStr
    /\ destination = NoStr
    /\ runs = 0
    /\ hist = [fs0 |-> fs, cfg0 |-> cfg, log0 |-> log, events |-> <<>>,
               prev |-> NoPrev]

\* A new process: the settings file is loaded (handle_music.py 64-101).
Startup(name, arg, first) ==
    /\ pc = "idle" \/ Ended
    /\ runs < MaxRuns
    /\ runs' = runs + 1
    /\ cmd' = [name |-> name, arg |-> arg]
    /\ err' = ""
    /\ files' = NoList
    /\ result' = <<>>
    /\ idx' = 1
    /\ source' = NoStr
    /\ destination' = NoStr
    /\ hist' = [fs0 |-> fs, cfg0 |-> cfg, log0 |-> log, events |-> first,
                prev |-> Prev]
    /\ UNCHANGED <<fs, findVars, pgVars, catalog>>

\* What a starting process does to the debug log (handle_music.py 68-91):
\* the logger is created enabled and writes its first lines, then it is
\* disabled where the logging setting is off (log_on enables it again); said
\* is the number of lines the command's branch hands the logger after that.
StartLog(said, enable) ==
    LET logging == load(cfg).logging
        on == logging \/ enable
    IN  /\ log' = write(write(log, TRUE, StartupLines(logging)), on, said)
        /\ enabled' = on

\* debugger.write called n times by the running process
Debug(n) == log' = write(log, enabled, n) /\ UNCHANGED enabled


\* log_off (handle_music.py 189-200)
LogOff ==
    /\ Startup("log_off", NoStr, <<>>)
    /\ StartLog(2, FALSE)
    /\ settings' = [load(cfg) EXCEPT !.logging = FALSE]
    /\ cfg' = WriteConfig(settings')
    /\ pc' = "exit0"
    /\ UNCHANGED stage

\* log_on (handle_music.py 202-214)
LogOn ==
    /\ Startup("log_on", NoStr, <<>>)
    /\ StartLog(2, TRUE)
    /\ settings' = [load(cfg) EXCEPT !.logging = TRUE]
    /\ cfg' = WriteConfig(settings')
    /\ pc' = "exit0"
    /\ UNCHANGED stage

\* The commands that print and end: each hands the logger one line and, at
\* the end of the script, "Exiting: 0" (handle_music.py 104-129, 164-170,
\* 182-187, 216-230, 271-276).
PlainCommands ==
    {"help", "art_help", "log_info", "settings", "set_source help", "unknown",
     "incorrect usage"}

Plain ==
    \E name \in PlainCommands :
        /\ Startup(name, NoStr, <<>>)
        /\ StartLog(2, FALSE)
        /\ settings' = load(cfg)
        /\ pc' = "exit0"
        /\ UNCHANGED <<cfg, stage>>

\* clear (handle_music.py 175-180): the log file is removed and the process
\* exits at once; os.remove raising ends it too.
Clear ==
    /\ Startup("clear", NoStr, <<>>)
    /\ LET logging == load(cfg).logging
           gone == clear(write(log, TRUE, StartupLines(logging)))
       IN  /\ log' = gone.log
           /\ enabled' = logging
           /\ pc' = IF gone.err = "" THEN "exit0" ELSE "crash"
    /\ settings' = load(cfg)
    /\ UNCHANGED <<cfg, stage>>

PathArgs ==
    {<<"~", "/", "m">>, <<"m">>, <<"/", "s", "/">>, <<"/", "n">>, <<"/", "d">>}

\* set_source <path> (handle_music.py 237-251)
SetSource ==
    \E arg \in PathArgs :
        /\ Startup("set_source", arg, <<>>)
        /\ StartLog(3, FALSE)
        /\ settings' = [load(cfg) EXCEPT !.source = abspath(expanduser(arg))]
        /\ cfg' = WriteConfig(settings')
        /\ pc' = "exit0"
        /\ UNCHANGED stage

\* set_dest <path> (handle_music.py 253-267)
SetDest ==
    \E arg \in PathArgs :
        /\ Startup("set_dest", arg, <<>>)
        /\ StartLog(3, FALSE)
        /\ settings' = [load(cfg) EXCEPT !.destination = abspath(expanduser(arg))]
        /\ cfg' = WriteConfig(settings')
        /\ pc' = "exit0"
        /\ UNCHANGED stage

StageOf(name) ==
    CASE name = "art" -> "art"
      [] name = "id3" -> "id3"
      [] name = "copy" -> "copy"
      [] name = "move" -> "move"
      [] name = "all" -> "id3"

\* art, id3, copy, move, all (handle_music.py 133-156): the first call
StartMusic(names) ==
    \E name \in names :
        /\ Startup(name, NoStr, <<Event("call", StageOf(name), NoList)>>)
        /\ StartLog(IF name = "all" THEN 2 ELSE 1, FALSE)
        /\ settings' = load(cfg)
        /\ stage' = StageOf(name)
        /\ pc' = IF StageOf(name) = "art" THEN "auth" ELSE "src"
        /\ UNCHANGED cfg

Log(e, fn, list) == [hist EXCEPT !.events = Append(@, Event(e, fn, list))]

\* An exception nothing catches ends the process.
Crash(e) == pc' = "crash" /\ err' = e

\* pg = pt.ProgressBar(len(files)); pg.print(): the loop is entered with the
\* list, unless printing the bar of an empty list raises.
BeginLoop(list) ==
    /\ files' = list
    /\ idx' = 1
    /\ pg' = ProgressBar(Len(list))
    /\ IF PrintRaises(pg')
       THEN Crash("ZeroDivisionError") /\ UNCHANGED out
       ELSE out' = Line(pg') /\ pc' = "loop" /\ UNCHANGED err

\* pg.inc_and_print() at the end of a loop body
Advance ==
    /\ idx' = idx + 1
    /\ pg' = increment(pg)
    /\ out' = Line(pg')

SourceAnswers == {<<>>, <<"/", "s", "/">>, <<"/", "n">>}
DestAnswers == {<<>>, <<"/", "d">>, <<"/", "n">>}

\* The source prompt of get_artwork, id3_correct, file_copy and file_move
\* (actions.py 141-150, 250-259, 355-364, 449-458): one answer.
PromptSource ==
    /\ pc = "src"
    /\ \E ans \in SourceAnswers :
        LET s == IF ans = <<>> THEN settings.source ELSE ans
        IN  IF Exists(fs, s)
            THEN source' = s /\ pc' = "depth"
            ELSE UNCHANGED <<source, pc>>
    /\ UNCHANGED <<fs, findVars, pgVars, err, cfg, settings, catalog, cmd, stage,
                   files, result, idx, destination, runs, hist, logVars>>

IsInt(s) == s # <<>> /\ \A i \in 1..Len(s) : \E d \in 0..9 : s[i] = Digit(d)

\* int(s)
RECURSIVE IntOf(_)
IntOf(s) ==
    IF s = <<>> THEN 0
    ELSE 10 * IntOf(SubSeq(s, 1, Len(s) - 1)) + (CHOOSE d \in 0..9 : Last(s) = Digit(d))

DepthAnswers == {<<>>, <<"x">>, <<"0">>, <<"2">>}

\* The recursion depth prompt and what follows it up to the next prompt or the
\* loop (actions.py 152-174, 262-292, 367-380, 461-474): one answer.
PromptDepth ==
    /\ pc = "depth"
    /\ \E ans \in DepthAnswers :
        IF ans # <<>> /\ ~IsInt(ans)
        THEN /\ Crash("ValueError")
             /\ UNCHANGED <<fs, pgVars, files, idx, hist, logVars>>
        ELSE IF ans # <<>> /\ IntOf(ans) <= 0
        THEN UNCHANGED <<fs, pgVars, err, pc, files, idx, hist, logVars>>
        ELSE LET depth == IF ans = <<>> THEN NoDepth ELSE IntOf(ans)
                 found == find_files(fs, source, Mp3Pattern, depth)
             IN  /\ hist' = Log("found", stage, found)
                 /\ CASE stage \in {"copy", "move"} ->
                           /\ files' = found
                           /\ pc' = "dst"
                           /\ UNCHANGED <<fs, pgVars, err, idx, logVars>>
                      [] stage = "art" ->
                           /\ BeginLoop(found)
                           /\ Debug(2)
                           /\ UNCHANGED fs
                      [] stage = "id3" ->
                           \* os.mkdir(os.path.join(source, '_invalid')),
                           \* whatever it raises passed over
                           /\ fs' = mkdir(fs, join2(source, InvalidDir)).fs
                           /\ Debug(IF mkdir(fs, join2(source, InvalidDir)).err = ""
                                    THEN 2 ELSE 3)
                           /\ BeginLoop(found)
    /\ UNCHANGED <<findVars, cfg, settings, catalog, cmd, stage, result, source,
                   destination, runs>>

\* The destination prompt of file_copy and file_move (actions.py 382-400,
\* 476-494): one answer.
PromptDest ==
    /\ pc = "dst"
    /\ \E ans \in DestAnswers :
        LET d == IF ans = <<>> THEN settings.destination ELSE ans
        IN  IF Exists(fs, d)
            THEN destination' = d /\ BeginLoop(files) /\ Debug(3)
            ELSE UNCHANGED <<destination, pc, files, idx, pgVars, err, logVars>>
    /\ UNCHANGED <<fs, findVars, cfg, settings, catalog, cmd, stage, result,
                   source, runs, hist>>

\* The tokens discogs gave are put in the settings (actions.py 87-88).
StoreTokens(s) == [s EXCEPT !.access_token = Token, !.access_secret = Token]

\* A slip: only the token cleared.
ClearToken(s) == [s EXCEPT !.access_token = NoStr]

\* The stored tokens are cleared (actions.py 119-120).
ClearTokens(s) == [s EXCEPT !.access_token = NoStr, !.access_secret = NoStr]

\* A slip: the failure reported and get_artwork going on.
AuthGoesOn == "src"

\* Where a failed authentication leaves the process: sys.exit(1)
\* (actions.py 82, 137).
AuthFailed == "exit1"

\* get_artwork's authentication (actions.py 65-138): the verification code is
\* accepted or rejected, the client is created or not.
ArtAuth ==
    /\ pc = "auth"
    /\ \E accepted \in BOOLEAN :
        IF settings.access_token = NoStr \/ settings.access_secret = NoStr
        THEN IF accepted
             THEN /\ settings' = StoreTokens(settings)
                  /\ cfg' = WriteConfig(settings')
                  /\ IF files = NoList
                     THEN /\ pc' = "src"
                          /\ Debug(3)
                          /\ UNCHANGED <<files, idx, pgVars, err>>
                     ELSE BeginLoop(files) /\ Debug(5)
             ELSE /\ pc' = AuthFailed
                  /\ Debug(3)
                  /\ UNCHANGED <<settings, cfg, files, idx, pgVars, err>>
        ELSE IF accepted
             THEN /\ UNCHANGED <<settings, cfg>>
                  /\ IF files = NoList
                     THEN /\ pc' = "src"
                          /\ Debug(2)
                          /\ UNCHANGED <<files, idx, pgVars, err>>
                     ELSE BeginLoop(files) /\ Debug(4)
             ELSE /\ settings' = ClearTokens(settings)
                  /\ cfg' = WriteConfig(settings')
                  /\ pc' = AuthFailed
                  /\ Debug(5)
                  /\ UNCHANGED <<files, idx, pgVars, err>>
    /\ UNCHANGED <<fs, findVars, catalog, cmd, stage, result, source,
                   destination, runs, hist>>

SetTags(f, p, artist, title) ==
    LET c == Components(p)
    IN  [f EXCEPT ![c] = [@ EXCEPT !.artist = artist, !.title = title]]

\* One file of id3_correct's loop (actions.py 294-324)
Id3File ==
    /\ pc = "loop" /\ stage = "id3" /\ idx <= Len(files)
    /\ LET file == files[idx]
           head == split(file)[1]
           base == split(file)[2]
           normal == Normalised(base)
           tmp == join2(head, normal)
           renamed == rename(fs, file, tmp)
           tags == SplitTags(base, normal)
           target == join3(source, InvalidDir, normal)
           moved == rename(renamed.fs, tmp, target)
       IN  IF renamed.err # ""
           THEN /\ Crash(renamed.err)
                /\ UNCHANGED <<fs, result, idx, pgVars, hist>>
           ELSE IF IsInvalidName(normal, tags)
           THEN IF moved.err # ""
                THEN /\ Crash(moved.err)
                     /\ fs' = renamed.fs
                     /\ UNCHANGED <<result, idx, pgVars, hist>>
                ELSE /\ fs' = moved.fs
                     /\ hist' = Log("quarantine", stage, <<file, target>>)
                     /\ Advance
                     /\ UNCHANGED <<result, pc, err>>
           ELSE /\ fs' = SetTags(renamed.fs, tmp, ArtistOf(tags), TitleOf(tags))
                /\ result' = Append(result, tmp)
                /\ hist' = Log("tagged", stage, <<file, tmp>>)
                /\ Advance
                /\ UNCHANGED <<pc, err>>
    /\ UNCHANGED <<findVars, cfg, settings, catalog, cmd, stage, files, source,
                   destination, runs, logVars>>

\* results[i].images[0]['uri'] can be read and fetched
Fetchable(results, i) == i <= Len(results) /\ results[i] = "image"

\* A slip: every result tried in turn.
FirstOfAll(results) ==
    IF \E i \in 1..Len(results) : Fetchable(results, i)
    THEN CHOOSE i \in 1..Len(results) :
            Fetchable(results, i) /\ \A j \in 1..(i - 1) : ~Fetchable(results, j)
    ELSE 0

\* The result whose image is embedded, 0 where none is (actions.py 193-216):
\* the first result, or the second where the first raises.
ImageChosen(results) ==
    IF Fetchable(results, 1) THEN 1
    ELSE IF Fetchable(results, 2) THEN 2
    ELSE 0

\* One file of get_artwork's loop (actions.py 176-218)
ArtFile ==
    /\ pc = "loop" /\ stage = "art" /\ idx <= Len(files)
    /\ LET file == files[idx]
           c == Components(file)
           chosen == ImageChosen(catalog)
       IN  IF ~IsFileC(fs, c)
           THEN /\ Crash("MutagenError")
                /\ UNCHANGED <<fs, idx, pgVars, hist>>
           ELSE IF fs[c].artist = NoStr
           THEN /\ Crash("KeyError")
                /\ UNCHANGED <<fs, idx, pgVars, hist>>
           ELSE /\ fs' = IF chosen = 0 THEN fs ELSE [fs EXCEPT ![c].art = chosen]
                /\ hist' = Log("art", stage, <<file>>)
                /\ Advance
                /\ UNCHANGED <<pc, err>>
    /\ UNCHANGED <<findVars, cfg, settings, catalog, cmd, stage, files, result,
                   source, destination, runs, logVars>>

\* The exceptions of os.mkdir that file_copy and file_move catch.
MkdirCaught == {"FileExistsError"}

\* A slip: every exception of os.mkdir caught.
MkdirCaughtAll ==
    {"FileExistsError", "FileNotFoundError", "NotADirectoryError"}

\* A slip: the copy raising on a file that is there already.
copy2NoOverwrite(f, src, dst) ==
    IF Components(dst) \in DOMAIN f THEN Fail("FileExistsError", f)
    ELSE copy2(f, src, dst)

\* shutil.copy2(file, os.path.join(destination, artist, basename))
CopyTo(f, src, dst) == copy2(f, src, dst)

\* One file of the loop of file_copy (actions.py 402-418), of file_move
\* (actions.py 496-512) and of find_uploads (actions.py 590-607)
RelocateFile(fn) ==
    /\ pc = "loop" /\ stage = fn /\ idx <= Len(files)
    /\ LET file == files[idx]
           c == Components(file)
           artist == fs[c].artist
           made == mkdir(fs, join2(destination, artist))
           target == join3(destination, artist, basename(file))
           done == IF fn = "move" THEN move(made.fs, file, target)
                   ELSE CopyTo(made.fs, file, target)
       IN  IF ~IsFileC(fs, c)
           THEN /\ Crash("MutagenError")
                /\ UNCHANGED <<fs, idx, pgVars, hist, logVars>>
           ELSE IF artist = NoStr
           THEN /\ Crash("KeyError")
                /\ UNCHANGED <<fs, idx, pgVars, hist, logVars>>
           ELSE IF made.err # "" /\ made.err \notin MkdirCaught
           THEN /\ Crash(made.err)
                /\ hist' = Log("mkdir raised", stage, <<file>>)
                /\ UNCHANGED <<fs, idx, pgVars, logVars>>
           ELSE /\ fs' = done.fs
                /\ hist' = Log(IF done.err = "" THEN "done" ELSE "failed", stage,
                               <<file, target, <<done.err>>>>)
                /\ Debug((IF made.err = "" THEN 0 ELSE 1)
                         + (IF done.err = "" THEN 0 ELSE 1))
                /\ Advance
                /\ UNCHANGED <<pc, err>>
    /\ UNCHANGED <<findVars, cfg, settings, catalog, cmd, stage, files, result,
                   source, destination, runs>>

CopyFile == RelocateFile("copy")

MoveFile == RelocateFile("move")

UploadFile == RelocateFile("uploads")

(***************************************************************************)
(* find_uploads.  Time is counted in seconds, DaySeconds of them to a day; *)
(* a struct_time is the tuple of the day (year, month and day of month in  *)
(* one), the second of the day, the week day, the day of the year and the  *)
(* daylight saving flag.                                                   *)
(***************************************************************************)
DaySeconds == 2
MaxDay == 2

struct_time(day, sec, isdst) == <<day, sec, day % 7, day, isdst>>

\* time.gmtime(t)
gmtime(t) == struct_time(t \div DaySeconds, t % DaySeconds, 0)

\* time.strptime(s, "%d/%m/%y"), s the text of a date: midnight of the day,
\* the daylight saving flag unknown
strptime(s) == struct_time(IntOf(s), 0, -1)

\* a > b for tuples of integers of one length
RECURSIVE TupleGreater(_, _)
TupleGreater(a, b) ==
    /\ a # <<>>
    /\ \/ a[1] > b[1]
       \/ a[1] = b[1] /\ TupleGreater(Tail(a), Tail(b))

\* os.path.getmtime(file)
getmtime(f, file) == f[Components(file)].mtime

\* time.gmtime(os.path.getmtime(file)) > ts
ModifiedAfter(f, file, ts) == TupleGreater(gmtime(getmtime(f, file)), ts)

\* The command line "uploads": find_uploads is called (handle_music.py
\* 158-160).
StartUploads ==
    /\ Startup("uploads", NoStr, <<Event("call", "uploads", NoList)>>)
    /\ StartLog(1, FALSE)
    /\ settings' = load(cfg)
    /\ stage' = "uploads"
    /\ pc' = "usrc"
    /\ UNCHANGED cfg

\* The source prompt of find_uploads (actions.py 540-553): one answer; the
\* default is the destination setting.
UploadsSource ==
    /\ pc = "usrc"
    /\ \E ans \in SourceAnswers \cup DestAnswers :
        LET s == IF ans = <<>> THEN settings.destination ELSE ans
        IN  IF Exists(fs, s)
            THEN source' = s /\ pc' = "date" /\ Debug(1)
            ELSE UNCHANGED <<source, pc, logVars>>
    /\ UNCHANGED <<fs, findVars, pgVars, err, cfg, settings, catalog, cmd, stage,
                   files, result, idx, destination, runs, hist>>

DateAnswers == {IntStr(d) : d \in 0..MaxDay} \cup {<<"x">>}

\* The timestamp prompt, the search and the filter (actions.py 555-568)
UploadsDate ==
    /\ pc = "date"
    /\ \E ans \in DateAnswers :
        IF ~IsInt(ans)
        THEN /\ Crash("ValueError")
             /\ Debug(1)
             /\ UNCHANGED <<files, hist>>
        ELSE LET ts == strptime(ans)
                 found == find_files(fs, source, Mp3Pattern, NoDepth)
                 kept == SelectSeq(found, LAMBDA file : ModifiedAfter(fs, file, ts))
             IN  /\ files' = kept
                 /\ hist' = [hist EXCEPT !.events =
                                @ \o <<Event("date", stage, <<ans>>),
                                       Event("found", stage, found)>>]
                 /\ pc' = "mode"
                 /\ Debug(2)
                 /\ UNCHANGED err
    /\ UNCHANGED <<fs, findVars, pgVars, cfg, settings, catalog, cmd, stage,
                   result, idx, source, destination, runs>>

ModeAnswers == {<<"y">>, <<"n">>, <<"Y">>, <<>>}

\* The copy question (actions.py 570-577), and for any answer but "y" the
\* listing and the return (actions.py 613-621)
UploadsMode ==
    /\ pc = "mode"
    /\ \E ans \in ModeAnswers :
        IF ans = <<"y">>
        THEN /\ hist' = Log("mode", stage, <<ans>>)
             /\ pc' = "udst"
             /\ Debug(1)
        ELSE /\ hist' = [hist EXCEPT !.events =
                            @ \o <<Event("mode", stage, <<ans>>),
                                   Event("return", stage, files)>>]
             /\ pc' = "exit0"
             /\ Debug(3)
    /\ UNCHANGED <<fs, findVars, pgVars, err, cfg, settings, catalog, cmd, stage,
                   files, result, idx, source, destination, runs>>

\* The destination prompt of find_uploads (actions.py 579-587): one answer,
\* no default behind it.
UploadsDest ==
    /\ pc = "udst"
    /\ \E ans \in DestAnswers :
        IF Exists(fs, ans)
        THEN destination' = ans /\ BeginLoop(files) /\ Debug(1)
        ELSE UNCHANGED <<destination, pc, files, idx, pgVars, err, logVars>>
    /\ UNCHANGED <<fs, findVars, cfg, settings, catalog, cmd, stage, result,
                   source, runs, hist>>

\* A slip: get_artwork given the list id3_correct was given.
AllArtFilesFound(found, returned) == found

\* files = actn.id3_correct(); files = actn.get_artwork(files)
\* (handle_music.py 152-154)
AllArtFiles(found, returned) == returned

\* The end of an action function: "Process complete." and the return
\* (actions.py 220-224, 326-330, 420-424, 514-518), and for the all command
\* the call of the next one (handle_music.py 149-156).
Return ==
    /\ pc = "loop" /\ idx > Len(files)
    /\ LET returned == IF stage = "id3" THEN result ELSE files
           next == IF cmd.name = "all" /\ stage = "id3" THEN "art"
                   ELSE IF cmd.name = "all" /\ stage = "art" THEN "copy"
                   ELSE ""
           passed == IF stage = "id3" THEN AllArtFiles(files, returned)
                     ELSE returned
       IN  IF next = ""
           THEN /\ hist' = [hist EXCEPT !.events =
                               @ \o <<Event("complete", stage, <<>>),
                                      Event("return", stage, returned)>>]
                /\ pc' = "exit0"
                /\ UNCHANGED <<stage, files>>
           ELSE /\ hist' = [hist EXCEPT !.events =
                               @ \o <<Event("complete", stage, <<>>),
                                      Event("return", stage, returned),
                                      Event("call", next, passed)>>]
                /\ stage' = next
                /\ files' = passed
                /\ pc' = IF next = "art" THEN "auth" ELSE "dst"
    /\ Debug(2)
    /\ UNCHANGED <<fs, findVars, pgVars, err, cfg, settings, catalog, cmd, result,
                   idx, source, destination, runs>>

(***************************************************************************)
(* The music trees: a source directory /s with a subdirectory /s/k, a      *)
(* destination directory /d, and up to MaxFiles mp3 files.                 *)
(***************************************************************************)
MaxFiles == 2

S == Ch("s")
K == Ch("k")
D == Ch("d")

MusicDirs == {<<>>, <<S>>, <<S, K>>, <<D>>}

\* The trees of the directories dirs and of up to MaxFiles of the files
\* cands, each a record [path, artist]; a file's id is its content.
Trees(dirs, cands) ==
    {[c \in dirs \cup {x.path : x \in chosen} |->
         IF c \in dirs THEN DirEntry
         ELSE LET x == CHOOSE y \in chosen : y.path = c
              IN  FileEntry(CHOOSE i \in 1..Cardinality(cands) :
                               SetToSeq(cands)[i] = x, x.artist)] :
       chosen \in {T \in SUBSET cands :
                      /\ Cardinality(T) <= MaxFiles
                      /\ \A x, y \in T : x.path = y.path => x = y}}

Catalogs ==
    UNION {[1..n -> {"image", "none", "error"}] : n \in 0..MaxResults}

TokenStates == {NoStr, Token}

(***************************************************************************)
(* get_artwork under study: the art command on tagged files, against any   *)
(* catalog of up to MaxResults search results.                             *)
(***************************************************************************)
ArtCands ==
    {[path |-> <<S, Mp3("x")>>, artist |-> <<"A">>],
     [path |-> <<S, Mp3("y")>>, artist |-> <<"B">>],
     [path |-> <<S, K, Mp3("x")>>, artist |-> NoStr]}

InitArt ==
    /\ fs \in Trees(MusicDirs, ArtCands)
    /\ cfg \in {dump(Settings(TRUE, <<"/", "s">>, <<"/", "d">>, t, t)) :
                   t \in TokenStates}
    /\ catalog \in Catalogs
    /\ log = NoLogFile
    /\ Idle(MaxRuns - 1)

NextArt ==
    \/ StartMusic({"art"})
    \/ ArtAuth
    \/ PromptSource
    \/ PromptDepth
    \/ ArtFile
    \/ Return

SpecArt == InitArt /\ [][NextArt]_vars

\* The files get_artwork's loop is done with.
ArtDone == {files[i] : i \in 1..(idx - 1)}

\* C7 as claimed: the image embedded is that of the first search result that
\* has an image to give, and a file gets no artwork only if no result has one.
C7_FirstOfAllResults ==
    (stage = "art" /\ pc \in {"loop", "exit0"}) =>
        \A p \in ArtDone : fs[Components(p)].art = FirstOfAll(catalog)

\* C7 amended: the image embedded is that of the first of the first two search
\* results whose image can be read and fetched; a file gets no artwork when
\* neither of the two gives one, whatever the later results hold.
C7_FirstOfFirstTwo ==
    (stage = "art" /\ pc \in {"loop", "exit0"}) =>
        \A p \in ArtDone :
            LET a == fs[Components(p)].art
            IN  /\ a \in 0..2
                /\ a # 0 => /\ Fetchable(catalog, a)
                            /\ \A j \in 1..(a - 1) : ~Fetchable(catalog, j)
                /\ a = 0 => ~Fetchable(catalog, 1) /\ ~Fetchable(catalog, 2)

C7_Witness ==
    /\ stage = "art" /\ pc = "exit0"
    /\ catalog = <<"error", "image", "image">>
    /\ \E p \in ArtDone : fs[Components(p)].art = 2

(***************************************************************************)
(* id3_correct and the all command under study, on files named well and    *)
(* badly: with and without the separator, with feature tags, with a match  *)
(* of the invalid pattern, with surrounding blanks.                        *)
(***************************************************************************)
Id3Names ==
    {<<"a", " ", "-", " ", "t">> \o Mp3Ext,
     <<"a", "F", "b", " ", "-", " ", "t">> \o Mp3Ext,
     <<"a", " ", "f", "t", ".", " ", "b", " ", "-", " ", "t">> \o Mp3Ext,
     <<"a", "t">> \o Mp3Ext,
     <<"a", "!", " ", "-", " ", "t">> \o Mp3Ext,
     <<"a", " ", "-", " ", "t", " ", "-", " ", "u">> \o Mp3Ext,
     <<" ", "a", " ", "-", " ", " ", "t", " ">> \o Mp3Ext,
     <<"a", "F", "t">> \o Mp3Ext,
     <<"a", " ", "-", " ", "t", "G", "u">> \o Mp3Ext}

Id3Cands ==
    {[path |-> d \o <<n>>, artist |-> <<"Z">>] : n \in Id3Names, d \in {<<S>>, <<S, K>>}}

Init ==
    /\ fs \in Trees(MusicDirs, Id3Cands)
    /\ cfg = dump(Settings(TRUE, <<"/", "s">>, <<"/", "d">>, Token, Token))
    /\ catalog = <<"none", "image">>
    /\ log = NoLogFile
    /\ Idle(MaxRuns - 1)

Next ==
    \/ StartMusic({"id3", "all"})
    \/ PromptSource
    \/ PromptDepth
    \/ Id3File
    \/ ArtAuth
    \/ ArtFile
    \/ PromptDest
    \/ CopyFile
    \/ Return

Spec == Init /\ [][Next]_vars

EventsOf(e, fn) == SelectSeq(hist.events, LAMBDA x : x.ev = e /\ x.fn = fn)

\* id3_correct has just returned.
Id3Returned ==
    \/ stage = "id3" /\ pc = "exit0"
    \/ cmd.name = "all" /\ stage = "art" /\ pc = "auth"

\* The list id3_correct worked on.
Id3Passed == EventsOf("found", "id3")[1].list

\* Where " - " stands in a name.
SepAt(s) == {i \in 1..(Len(s) - 2) : SubSeq(s, i, i + 2) = Sep}

\* "<artist> - <title>.mp3", one separator, no match of the invalid pattern
WellFormed(s) ==
    /\ Cardinality(SepAt(s)) = 1
    /\ EndsWith(s, Mp3Ext)
    /\ \A i \in 1..Len(s) : s[i] # InvalidMatch

LeftOf(s) == SubSeq(s, 1, (CHOOSE i \in SepAt(s) : TRUE) - 1)
RightOf(s) == SubSeq(s, (CHOOSE i \in SepAt(s) : TRUE) + 3, Len(s) - 4)

\* The file at path p carries the artist and title that the name s spells.
TaggedAs(p, s) ==
    /\ IsFileC(fs, Components(p))
    /\ fs[Components(p)].artist = strip(LeftOf(s))
    /\ fs[Components(p)].title = strip(RightOf(s))

\* C1 as claimed: a file whose basename is "<artist> - <title>.mp3" gets that
\* artist and that title, and is in the list returned.
C1_TagsFromName ==
    Id3Returned =>
        \A i \in 1..Len(Id3Passed) :
            LET file == Id3Passed[i]
                base == basename(file)
            IN  WellFormed(base) =>
                    \E p \in Range(result) :
                        /\ p \in {file, join2(split(file)[1], Normalised(base))}
                        /\ TaggedAs(p, base)

\* C1 amended: id3_correct first renames each file, every feature tag in its
\* basename replaced by " ft. " or "(ft. "; a file whose new basename is
\* "<artist> - <title>.mp3" gets that artist and that title, stripped, and
\* its new path is in the list returned.
C1_TagsFromNormalisedName ==
    Id3Returned =>
        \A i \in 1..Len(Id3Passed) :
            LET file == Id3Passed[i]
                normal == Normalised(basename(file))
                p == join2(split(file)[1], normal)
            IN  WellFormed(normal) => p \in Range(result) /\ TaggedAs(p, normal)

C1_Witness ==
    /\ Id3Returned
    /\ \E i \in 1..Len(Id3Passed) :
          /\ basename(Id3Passed[i]) = <<"a", "F", "b", " ", "-", " ", "t">> \o Mp3Ext
          /\ join2(split(Id3Passed[i])[1], <<"a", " ", "f", "t", ".", " ", "b", " ", "-", " ", "t">> \o Mp3Ext) \in Range(result)
    /\ \E i \in 1..Len(Id3Passed) : basename(Id3Passed[i]) = <<" ", "a", " ", "-", " ", " ", "t", " ">> \o Mp3Ext

\* C2, for the names the renaming leaves alone: a file whose basename lacks
\* the separator or matches the invalid pattern is in <source>/_invalid
\* under that basename when id3_correct returns, as it was before the run,
\* and no path of it is in the list returned.
C2_QuarantinedIntact ==
    Id3Returned =>
        \A i \in 1..Len(Id3Passed) :
            LET file == Id3Passed[i]
                base == basename(file)
                q == join3(source, InvalidDir, base)
            IN  (Normalised(base) = base /\ (SepAt(base) = {} \/ re_search_invalid(base))) =>
                    /\ IsFileC(fs, Components(q))
                    /\ fs[Components(q)] = hist.fs0[Components(file)]
                    /\ file \notin Range(result)
                    /\ q \notin Range(result)

AllCalls == SelectSeq(hist.events, LAMBDA x : x.ev = "call")

\* C6: in an all run get_artwork is called only when id3_correct has returned
\* and file_copy only when get_artwork has, each with the list the one before
\* returned; a run that ends well has called the three in that order; and a
\* file id3_correct quarantined is in no list passed on, is worked on by
\* neither get_artwork nor file_copy, and is not in the destination.
C6_AllInOrder ==
    cmd.name = "all" =>
        LET E == hist.events
        IN  /\ \A i \in 1..Len(E) :
                  (E[i].ev = "call" /\ E[i].fn # "id3") =>
                      /\ i > 1
                      /\ E[i - 1].ev = "return"
                      /\ E[i - 1].fn = (IF E[i].fn = "art" THEN "id3" ELSE "art")
                      /\ E[i - 1].list = E[i].list
            /\ Len(AllCalls) <= 3
            /\ \A i \in 1..Len(AllCalls) : AllCalls[i].fn = <<"id3", "art", "copy">>[i]
            /\ pc = "exit0" => Len(AllCalls) = 3
            /\ \A i \in 1..Len(E) :
                  E[i].ev = "quarantine" =>
                      /\ \A j \in 1..Len(E) :
                            E[j].fn \in {"art", "copy"} =>
                                Range(E[i].list) \cap Range(E[j].list) = {}
                      /\ \A c \in DOMAIN fs :
                            (c # <<>> /\ c[1] = D /\ fs[c].kind = "file") =>
                                fs[c].id # hist.fs0[Components(E[i].list[1])].id

C6_Witness ==
    /\ cmd.name = "all" /\ pc = "exit0"
    /\ EventsOf("quarantine", "id3") # <<>>
    /\ EventsOf("done", "copy") # <<>>

(***************************************************************************)
(* file_copy and file_move under study: two processes, one after the       *)
(* other, on files whose artist tags name a folder, a folder in a folder,  *)
(* or a folder of the source.                                              *)
(***************************************************************************)
CopyCands ==
    {[path |-> c, artist |-> a] :
        c \in {<<S, Mp3("x")>>, <<S, K, Mp3("x")>>, <<S, Mp3("y")>>},
        a \in {<<"A">>, <<"A", "/", "B">>, K}}

InitCopy ==
    /\ fs \in Trees(MusicDirs, CopyCands)
    /\ cfg \in {dump(Settings(TRUE, <<"/", "s">>, d, Token, Token)) :
                   d \in {<<"/", "d">>, <<"/", "s">>}}
    /\ catalog = <<>>
    /\ log = NoLogFile
    /\ Idle(MaxRuns - 2)

NextCopy ==
    \/ StartMusic({"copy", "move"})
    \/ PromptSource
    \/ PromptDepth
    \/ PromptDest
    \/ CopyFile
    \/ MoveFile
    \/ Return

SpecCopy == InitCopy /\ [][NextCopy]_vars

\* file_copy runs for the second time, on the list and to the destination of
\* a first run that returned.
SecondCopy ==
    /\ cmd.name = "copy" /\ stage = "copy"
    /\ hist.prev.name = "copy" /\ hist.prev.pc = "exit0"
    /\ pc \in {"loop", "crash", "exit0"}
    /\ files = hist.prev.files
    /\ destination = hist.prev.destination

\* The part of the tree under the destination.
DestTree(f) ==
    LET d == Components(destination)
    IN  [c \in {k \in DOMAIN f : Len(k) >= Len(d) /\ SubSeq(k, 1, Len(d)) = d} |-> f[c]]

\* <destination>/<artist>/<basename> of a file of the list
TargetOf(file) ==
    Components(join3(destination, hist.fs0[Components(file)].artist, basename(file)))

\* C4 as claimed: after the second run the destination holds a copy of each
\* file of the list at <destination>/<artist>/<basename>, the destination
\* tree is the tree the first run left, and no copy has failed.
C4_OneCopyOfEachFile ==
    (SecondCopy /\ pc = "exit0") =>
        /\ DestTree(fs) = DestTree(hist.prev.fs)
        /\ EventsOf("failed", "copy") = <<>>
        /\ \A i \in 1..Len(files) :
              /\ IsFileC(fs, TargetOf(files[i]))
              /\ fs[TargetOf(files[i])].id = hist.fs0[Components(files[i])].id

\* C4 amended: a second run on the list and to the destination of a first
\* run that returned returns too, no copy of it fails on a file or folder
\* being there already, and it leaves the whole tree as the first run left
\* it; each path <destination>/<artist>/<basename> it copied to holds one
\* file, the last of the list copied there.
C4_SecondRunChangesNothing ==
    SecondCopy =>
        /\ pc # "crash"
        /\ \A i \in 1..Len(EventsOf("failed", "copy")) :
              EventsOf("failed", "copy")[i].list[3] # <<"FileExistsError">>
        /\ pc = "exit0" =>
              /\ fs = hist.prev.fs
              /\ \A i \in 1..Len(EventsOf("done", "copy")) :
                    LET E == EventsOf("done", "copy")
                        last == CHOOSE j \in i..Len(E) :
                                   /\ Components(E[j].list[2]) = Components(E[i].list[2])
                                   /\ \A k \in (j + 1)..Len(E) :
                                         Components(E[k].list[2]) # Components(E[i].list[2])
                    IN  /\ IsFileC(fs, Components(E[i].list[2]))
                        /\ fs[Components(E[i].list[2])] = fs[Components(E[last].list[1])]

C4_Witness ==
    /\ SecondCopy /\ pc = "exit0"
    /\ Len(files) = 2
    /\ Len(EventsOf("done", "copy")) = 2
    /\ TargetOf(files[1]) = TargetOf(files[2])

\* C9: in file_copy and file_move no failure of creating the artist folder
\* or of copying or moving a file ends the run: the loop goes on to the next
\* file.
C9_FailuresCaught ==
    ~(/\ stage \in {"copy", "move"}
      /\ pc = "crash"
      /\ EventsOf("mkdir raised", stage) # <<>>)

(***************************************************************************)
(* The settings under study: the commands that change them, one process    *)
(* after another.                                                          *)
(***************************************************************************)
SettingsCands == {[path |-> <<S, Mp3("x")>>, artist |-> <<"A">>]}

InitSettings ==
    /\ fs \in Trees(MusicDirs, SettingsCands)
    /\ cfg \in {dump(Settings(l, <<"/", "s">>, <<"/", "d">>, t, k)) :
                   l \in BOOLEAN, t \in TokenStates, k \in TokenStates}
    /\ catalog = <<"image">>
    /\ log = NoLogFile
    /\ Idle(0)

NextSettings ==
    \/ LogOff
    \/ LogOn
    \/ SetSource
    \/ SetDest
    \/ StartMusic({"art"})
    \/ ArtAuth
    \/ PromptSource
    \/ PromptDepth
    \/ ArtFile
    \/ Return

SpecSettings == InitSettings /\ [][NextSettings]_vars

\* The keys a command may change.
OwnKeys(name) ==
    CASE name \in {"log_on", "log_off"} -> {"logging"}
      [] name = "set_source" -> {"source"}
      [] name = "set_dest" -> {"destination"}
      [] name = "art" -> {"access_token", "access_secret"}
      [] OTHER -> {}

\* C10: when a process ends, the settings file holds the JSON text of the
\* settings in memory, and of the keys the file held when the process
\* started only the command's own have changed.
C10_FileEqualsMemory ==
    Ended =>
        /\ cfg = dump(settings)
        /\ load(cfg) = settings
        /\ \A k \in SettingsKeys \ OwnKeys(cmd.name) : cfg[k] = hist.cfg0[k]

C10_Witness ==
    /\ Ended /\ runs = 2
    /\ cmd.name = "art" /\ hist.prev.name = "set_source"
    /\ cfg.access_token # hist.cfg0.access_token
    /\ cfg.source # JsonStr(<<"/", "s">>)

\* The place a path argument names: under the home directory after a
\* leading "~/", under the working directory when relative.
PlaceOf(a) ==
    IF a[1] = "~" THEN Components(Home) \o Components(Tail(a))
    ELSE IF a[1] = "/" THEN Components(a)
    ELSE Components(Cwd) \o Components(a)

\* C13: set_source and set_dest end normally whether the path exists or
\* not, and the value stored, in memory and in the settings file, is the
\* absolute name of the place the argument names: it starts with the
\* separator, does not end with one, and holds no tilde.
C13_StoresAbsolutePath ==
    (cmd.name \in {"set_source", "set_dest"} /\ pc # "idle") =>
        LET key == IF cmd.name = "set_source" THEN "source" ELSE "destination"
            v == load(cfg)[key]
        IN  /\ pc = "exit0" /\ err = ""
            /\ settings[key] = v
            /\ v[1] = "/" /\ v[Len(v)] # "/"
            /\ \A i \in 1..Len(v) : v[i] # "~"
            /\ Components(v) = PlaceOf(cmd.arg)

C13_Witness ==
    /\ cmd.name = "set_source" /\ pc = "exit0"
    /\ cmd.arg = <<"~", "/", "m">>
    /\ load(cfg).source = <<"/", "h", "/", "m">>
    /\ Components(load(cfg).source) \notin DOMAIN fs
    /\ hist.prev.name = "set_dest"
    /\ load(cfg).destination = <<"/", "w", "/", "m">>

(***************************************************************************)
(* The debug log under study: two processes, one after the other, of any   *)
(* command, the logging setting on or off and the log file there or not.   *)
(***************************************************************************)
\* The tree with the modification time of every file
Stamped(tree, cands) ==
    [c \in DOMAIN tree |->
        IF tree[c].kind = "file"
        THEN tree[c] @@ [mtime |-> SetToSeq(cands)[tree[c].id].mtime]
        ELSE tree[c]]

LogCands ==
    {[path |-> <<S, Mp3("x")>>, artist |-> <<"A">>, mtime |-> DaySeconds]}

InitLog ==
    /\ fs \in {Stamped(t, LogCands) : t \in Trees(MusicDirs, LogCands)}
    /\ cfg \in {dump(Settings(l, <<"/", "s">>, <<"/", "d">>, Token, Token)) :
                   l \in BOOLEAN}
    /\ catalog = <<"image">>
    /\ log \in {NoLogFile, [exists |-> TRUE, lines |-> 4]}
    /\ Idle(MaxRuns - 2)

NextLog ==
    \/ Plain
    \/ Clear
    \/ LogOff
    \/ LogOn
    \/ SetSource
    \/ SetDest
    \/ StartMusic({"art", "id3", "copy", "move", "all"})
    \/ StartUploads
    \/ ArtAuth
    \/ PromptSource
    \/ PromptDepth
    \/ PromptDest
    \/ UploadsSource
    \/ UploadsDate
    \/ UploadsMode
    \/ UploadsDest
    \/ Id3File
    \/ ArtFile
    \/ CopyFile
    \/ MoveFile
    \/ UploadFile
    \/ Return

SpecLog == InitLog /\ [][NextLog]_vars

\* The process runs with the logging setting off and is not the one that
\* turns it on.
LoggingOff ==
    pc # "idle" /\ hist.cfg0.logging = JsonFalse /\ cmd.name # "log_on"

\* C11 as claimed: a process started with the logging setting off, any
\* command but log_on, appends nothing to the debug log file.
C11_NothingAppended == LoggingOff => log.lines <= hist.log0.lines

\* C11 amended: a process started with the logging setting off, any command
\* but log_on and clear, appends three lines to the debug log file while it
\* starts (the separator, "Successfully loaded settings." and "Debug logger
\* is getting disabled."), creating the file if need be, and nothing after.
C11_OnlyStartupLines ==
    (LoggingOff /\ cmd.name # "clear") =>
        /\ ~enabled
        /\ log = [exists |-> TRUE, lines |-> hist.log0.lines + 3]

C11_Witness ==
    /\ LoggingOff /\ pc = "exit0"
    /\ hist.prev.name = "log_off"
    /\ cmd.name = "copy"
    /\ EventsOf("done", "copy") # <<>>
    /\ log.lines = hist.log0.lines + 3

\* C15: a clear process never ends on an exception, and when it has ended
\* the log file does not exist, whatever the logging setting and whether the
\* file was there before or not.
C15_LogFileGone ==
    (cmd.name = "clear" /\ pc # "idle") => pc = "exit0" /\ log = NoLogFile

C15_Witness ==
    /\ cmd.name = "clear" /\ pc = "exit0"
    /\ hist.log0 = NoLogFile
    /\ hist.cfg0.logging = JsonFalse
    /\ hist.prev.name = "clear"

(***************************************************************************)
(* The prompts and find_uploads: one process of an action command, the     *)
(* default source and the default destination of the settings file there   *)
(* or not, every file last modified one second before midnight of day 1,   *)
(* at midnight, or one second after.                                       *)
(***************************************************************************)
UploadTimes == {DaySeconds - 1, DaySeconds, DaySeconds + 1}

UploadCands ==
    {[path |-> p, artist |-> <<"A">>, mtime |-> t] :
        p \in {<<S, Mp3("x")>>, <<D, Mp3("y")>>}, t \in UploadTimes}

InitUploads ==
    /\ fs \in {Stamped(t, UploadCands) : t \in Trees(MusicDirs, UploadCands)}
    /\ cfg \in {dump(Settings(FALSE, s, d, Token, Token)) :
                   s \in {<<"/", "s">>, <<"/", "n">>},
                   d \in {<<"/", "d">>, <<"/", "n">>}}
    /\ catalog = <<"image">>
    /\ log = NoLogFile
    /\ Idle(MaxRuns - 1)

NextUploads ==
    \/ StartMusic({"art", "id3", "copy", "move"})
    \/ StartUploads
    \/ ArtAuth
    \/ PromptSource
    \/ PromptDepth
    \/ PromptDest
    \/ UploadsSource
    \/ UploadsDate
    \/ UploadsMode
    \/ UploadsDest
    \/ Id3File
    \/ ArtFile
    \/ CopyFile
    \/ MoveFile
    \/ UploadFile
    \/ Return

SpecUploads == InitUploads /\ [][NextUploads]_vars

\* The path is the name of something in the tree.
There(p) == p # NoStr /\ p # <<>> /\ Components(p) \in DOMAIN fs

\* The function at work has enumerated the files of the source.
Enumerated == \E i \in 1..Len(hist.events) : hist.events[i].ev = "found"

\* The function at work has started on the files: the filesystem differs, a
\* file was handled, or the loop over the files is running.
Modifying ==
    \/ fs # hist.fs0
    \/ \E i \in 1..Len(hist.events) :
          hist.events[i].ev \in {"tagged", "quarantine", "art", "done",
                                 "failed", "mkdir raised"}
    \/ pc = "loop"

\* A path is chosen only if it exists, the default of the settings file as
\* well as an answer typed in, and a prompt given a missing path prompts
\* again with nothing done.
OnlyExistingChosen ==
    /\ source # NoStr => There(source)
    /\ destination # NoStr => There(destination)
    /\ (pc \in {"src", "usrc"} /\ cmd.name # "") =>
           source = NoStr /\ ~Enumerated /\ ~Modifying
    /\ pc \in {"dst", "udst"} => destination = NoStr /\ ~Modifying

\* C12 as claimed: in get_artwork, id3_correct, file_copy, file_move and
\* find_uploads only existing paths are chosen, and the files are neither
\* enumerated nor modified before the source is chosen and, in file_copy
\* and file_move, the destination too.
C12_NothingBeforePaths ==
    /\ OnlyExistingChosen
    /\ (Enumerated \/ Modifying) =>
           /\ source # NoStr
           /\ stage \in {"copy", "move"} => destination # NoStr

\* C12 amended: only existing paths are chosen; the files are enumerated
\* only after the source is chosen, and modified only after the source
\* and, where files are copied or moved (file_copy, file_move, find_uploads),
\* the destination are chosen; file_copy and file_move enumerate the source
\* before they ask for the destination.
C12_PathsExist ==
    /\ OnlyExistingChosen
    /\ Enumerated => source # NoStr
    /\ Modifying =>
           /\ source # NoStr
           /\ stage \in {"copy", "move", "uploads"} => destination # NoStr

C12_Witness ==
    /\ cmd.name = "copy" /\ pc = "exit0"
    /\ load(hist.cfg0).source = <<"/", "n">>
    /\ load(hist.cfg0).destination = <<"/", "n">>
    /\ source = <<"/", "s", "/">>
    /\ destination = <<"/", "d">>
    /\ EventsOf("done", "copy") # <<>>

C12_WitnessUploads ==
    /\ cmd.name = "uploads" /\ pc = "exit0"
    /\ load(hist.cfg0).destination = <<"/", "n">>
    /\ source = <<"/", "d">>
    /\ destination = <<"/", "d">>
    /\ EventsOf("done", "uploads") # <<>>

\* The files find_uploads found, the date entered and the list it returned
UploadsFound == EventsOf("found", "uploads")[1].list
UploadsDay == IntOf(EventsOf("date", "uploads")[1].list[1])
UploadsReturned == EventsOf("return", "uploads")[1].list

\* C14, the list: when find_uploads returns, in either mode, the list it
\* returns holds the files found whose modification time is after the date
\* entered, that is later than 00:00:00 UTC of that day, and no other.
C14_ReturnsFilesAfterDate ==
    (cmd.name = "uploads" /\ pc = "exit0") =>
        UploadsReturned =
            SelectSeq(UploadsFound,
                      LAMBDA file :
                          getmtime(hist.fs0, file) > UploadsDay * DaySeconds)

\* What the code returns instead: the files found that were modified at
\* 00:00:00 UTC of the day entered or later.
C14_ReturnsFilesFromDate ==
    (cmd.name = "uploads" /\ pc = "exit0") =>
        UploadsReturned =
            SelectSeq(UploadsFound,
                      LAMBDA file :
                          getmtime(hist.fs0, file) >= UploadsDay * DaySeconds)

\* C14, the two modes: after any answer but "y" to the copy question
\* find_uploads returns with the filesystem as it was, and copies only
\* after "y".
C14_ListModeChangesNothing ==
    (cmd.name = "uploads" /\ fs # hist.fs0) =>
        /\ EventsOf("mode", "uploads") # <<>>
        /\ EventsOf("mode", "uploads")[1].list = <<<<"y">>>>

(***************************************************************************)
(* The authentication of get_artwork                                       *)
(***************************************************************************)

\* Both tokens of the settings are there.
HasTokens(s) == s.access_token # NoStr /\ s.access_secret # NoStr

\* Neither token of the settings is there.
HasNoToken(s) == s.access_token = NoStr /\ s.access_secret = NoStr

\* C16: a get_artwork process whose authentication failed, on the code typed
\* in or on the stored tokens, ends with exit status 1 with no source asked
\* for, no file enumerated and the filesystem as it was; whenever the source
\* is chosen, files are enumerated or a file is touched, the authentication
\* is over and the tokens are there.
C16_NothingBeforeAuthentication ==
    (cmd.name = "art" /\ pc # "idle") =>
        /\ pc \in {"auth", "exit1"} =>
               /\ fs = hist.fs0
               /\ source = NoStr /\ files = NoList
               /\ ~Enumerated /\ ~Modifying
               /\ Len(hist.events) = 1
        /\ (source # NoStr \/ Enumerated \/ Modifying \/ fs # hist.fs0) =>
               /\ pc \notin {"auth", "exit1"}
               /\ HasTokens(settings)

C16_Witness ==
    /\ cmd.name = "art" /\ pc = "exit1"
    /\ HasTokens(load(hist.cfg0))
    /\ \E c \in DOMAIN fs : fs[c].kind = "file"
    /\ fs = hist.fs0

(***************************************************************************)
(* The tokens: get_artwork processes one after the other, the settings     *)
(* file holding no token at first.                                         *)
(***************************************************************************)
InitTokens ==
    /\ fs \in Trees(MusicDirs, SettingsCands)
    /\ cfg \in {dump(Settings(l, <<"/", "s">>, <<"/", "d">>, NoStr, NoStr)) :
                   l \in BOOLEAN}
    /\ catalog = <<"image">>
    /\ log = NoLogFile
    /\ Idle(0)

NextTokens ==
    \/ StartMusic({"art"})
    \/ ArtAuth
    \/ PromptSource
    \/ PromptDepth
    \/ ArtFile
    \/ Return

SpecTokens == InitTokens /\ [][NextTokens]_vars

\* C17: in the settings file the two tokens are both there or both missing,
\* at any time; in a get_artwork process the tokens in memory are those of
\* the file; a process that ends on a failed authentication leaves both
\* missing, the file untouched if they were missing at its start; a process
\* past the authentication has both.
C17_TokensPaired ==
    /\ HasTokens(load(cfg)) \/ HasNoToken(load(cfg))
    /\ pc # "idle" =>
           /\ settings.access_token = load(cfg).access_token
           /\ settings.access_secret = load(cfg).access_secret
           /\ pc = "auth" => cfg = hist.cfg0
           /\ pc = "exit1" =>
                  /\ HasNoToken(settings)
                  /\ HasNoToken(load(hist.cfg0)) => cfg = hist.cfg0
           /\ pc \notin {"auth", "exit1"} => HasTokens(settings)

C17_Witness ==
    /\ pc = "exit1"
    /\ HasTokens(load(hist.cfg0))
    /\ HasNoToken(load(cfg))
    /\ hist.prev.name = "art" /\ hist.prev.pc = "exit0"

(***************************************************************************)
(* find_files under study: a tree, one call, and the same call with a      *)
(* separator appended to the source.                                       *)
(***************************************************************************)

FindDirs == {<<>>, <<Ch("m")>>, <<Ch("m"), Ch("a")>>, <<Ch("m"), Ch("a"), Ch("b")>>,
             <<Ch("o")>>}

FindFileCands ==
    {<<Mp3("w")>>, <<Ch("m"), Mp3("x")>>, <<Ch("m"), <<"t", ".", "t">>>>,
     <<Ch("m"), Ch("a"), Mp3("y")>>, <<Ch("m"), Ch("a"), Ch("b"), Mp3("z")>>,
     <<Ch("o"), Mp3("v")>>, <<Ch("m"), <<".">> \o Mp3("h")>>}

FindTree(cands) ==
    [c \in FindDirs \cup cands |->
        IF c \in FindDirs THEN DirEntry ELSE FileEntry(1, NoStr)]

FindSources == {<<"/", "m">>, <<"/", "m", "/">>, <<"/", "m", "/", "a">>, <<"/">>,
                <<"/", "n">>}

FindPatterns == {Mp3Pattern, <<"*", ".", "t">>}

InitFind ==
    /\ fs \in {FindTree(T) : T \in SUBSET FindFileCands}
    /\ call = NoCall
    /\ ret = NoList
    /\ retSlash = NoList
    /\ pg = ProgressBar(0)
    /\ out = NoOut
    /\ err = ""
    /\ NoProcess

FindCall ==
    /\ call = NoCall
    /\ \E p \in FindSources, pat \in FindPatterns, d \in {NoDepth} \cup 1..MaxDepth :
         /\ call' = [src |-> p, pat |-> pat, depth |-> d]
         /\ ret' = find_files(fs, p, pat, d)
    /\ UNCHANGED <<fs, retSlash, pg, out, err, procVars>>

FindCallSlash ==
    /\ call # NoCall
    /\ retSlash = NoList
    /\ retSlash' = find_files(fs, call.src \o <<"/">>, call.pat, call.depth)
    /\ UNCHANGED <<fs, call, ret, pg, out, err, procVars>>

NextFind == FindCall \/ FindCallSlash

SpecFind == InitFind /\ [][NextFind]_vars

\* C3: find_files(p, pattern, depth) and find_files(p + "/", pattern, depth)
\* return the same set of files, for depth None or a positive integer.
C3_TrailingSlashSameFiles ==
    retSlash # NoList => FileSet(ret) = FileSet(retSlash)

C3_Witness ==
    /\ retSlash # NoList
    /\ call.depth = NoDepth
    /\ Last(call.src) # "/"
    /\ Cardinality(FileSet(ret)) >= 2

\* The files under source, at most d names below it, whose name matches.
FilesWithin(f, src, pattern, d) ==
    LET s == Components(src)
    IN  {c \in DOMAIN f :
            /\ f[c].kind = "file"
            /\ Len(c) > Len(s) /\ Len(c) <= Len(s) + d
            /\ SubSeq(c, 1, Len(s)) = s
            /\ fnmatch(Last(c), pattern) /\ ~IsHidden(Last(c))}

\* C8: find_files(source, pattern, depth=d) returns exactly the matching files
\* fewer than d directory levels below source: a subset of the result for
\* depth=None, with no file outside source.
C8_DepthBounded ==
    (ret # NoList /\ call.depth # NoDepth) =>
        /\ FileSet(ret) = FilesWithin(fs, call.src, call.pat, call.depth)
        /\ FileSet(ret) \subseteq FileSet(find_files(fs, call.src, call.pat, NoDepth))

(***************************************************************************)
(* The progress bar under study: a bar of any total up to MaxTotal, and    *)
(* any sequence of its three methods up to MaxIter increments.             *)
(***************************************************************************)
MaxTotal == 5
MaxIter == 7

InitProgress ==
    /\ fs = FindTree({})
    /\ call = NoCall
    /\ ret = NoList
    /\ retSlash = NoList
    /\ pg \in {ProgressBar(t) : t \in 0..MaxTotal}
    /\ out = NoOut
    /\ err = ""
    /\ NoProcess

PgPrint ==
    /\ err = ""
    /\ IF PrintRaises(pg)
       THEN err' = "ZeroDivisionError" /\ UNCHANGED <<pg, out>>
       ELSE out' = Line(pg) /\ UNCHANGED <<pg, err>>
    /\ UNCHANGED <<fs, findVars, procVars>>

PgIncrement ==
    /\ err = ""
    /\ pg.iteration < MaxIter
    /\ pg' = increment(pg)
    /\ UNCHANGED <<fs, findVars, out, err, procVars>>

PgIncAndPrint ==
    /\ err = ""
    /\ pg.iteration < MaxIter
    /\ pg' = increment(pg)
    /\ IF PrintRaises(pg')
       THEN err' = "ZeroDivisionError" /\ UNCHANGED out
       ELSE out' = Line(pg') /\ UNCHANGED err
    /\ UNCHANGED <<fs, findVars, procVars>>

NextProgress == PgPrint \/ PgIncrement \/ PgIncAndPrint

SpecProgress == InitProgress /\ [][NextProgress]_vars

Text100 == <<"1", "0", "0", ".", "0">>

\* A percentage text with one decimal is below 100.0 when its integer part
\* has at most two digits.
Below100(text) == Len(text) <= 2 + 1 + Decimals

\* C5: for a ProgressBar of total 4, over any sequence of print, increment and
\* inc_and_print calls, the percentage printed is "100.0" only when exactly 4
\* increments have been made, and below 100.0 after 0, 1, 2 or 3 increments.
C5_HundredOnlyAfterFour ==
    (pg.total = 4 /\ out # NoOut) =>
        /\ out.text = Text100 => out.iter = 4
        /\ out.iter = 4 => out.text = Text100
        /\ out.iter < 4 => Below100(out.text)

C5_Witness ==
    /\ pg.total = 4
    /\ out.text = Text100
    /\ pg.iteration = 5

=============================================================================
